---- MODULE Spec2Model ----
(***************************************************************************)
(* Model of the content-creation orchestrator (createContent, withRetry,   *)
(* WorkflowLogger, saveArticle), the fact validator gate, the compliance   *)
(* checker, the article routes (create, read, rewrite) and the library     *)
(* functions deduplicateFacts and validateToneOfVoice of                   *)
(* renault-content-ai.                                                     *)
(*                                                                         *)
(* Strings that the code searches with String.includes are modelled as     *)
(* sequences of tokens; includes(pattern) is membership of the token.      *)
(* Date.now() is the variable clock, which advances at every await.        *)
(***************************************************************************)
EXTENDS Integers, Sequences, FiniteSets, TLC

VARIABLES
    pc,               \* position of createContent: the await it is suspended at
    request,          \* ContentRequest of the run
    steps,            \* WorkflowLogger.steps
    qualityWarnings,  \* createContent's qualityWarnings
    retry,            \* frame of the withRetry call in progress
    research,         \* ResearchResult.facts
    validation,       \* ValidationResult
    article,          \* Article returned by the content writer
    compliance,       \* ComplianceResult
    articles,         \* rows of the articles table
    writerCalls,      \* inputs runContentWriter was invoked with (approved counts)
    deepCalls,        \* number of anthropic.messages.create calls of the compliance checker
    partition,        \* runFactValidator's parsed classifier output (its local `result`)
    verdict,          \* the result runComplianceChecker computed (pre-check or parsed deep check)
    caught,           \* the error createContent's catch block received
    result,           \* what createContent produced: nothing yet, an envelope, or a propagated error
    rewrites,         \* the rewrite requests (POST /api/articles/:id/rewrite) and where each stands
    fetched,          \* the last response of GET /api/articles/:id
    call,             \* a call of a library function: its argument and what it returned
    clock             \* Date.now()

vars == <<pc, request, steps, qualityWarnings, retry, research, validation,
          article, compliance, articles, writerCalls, deepCalls, partition,
          verdict, caught, result, rewrites, fetched, call, clock>>

runVars == <<pc, request, steps, qualityWarnings, research, validation,
             article, compliance, articles, writerCalls, deepCalls, partition,
             verdict, caught, result, rewrites, fetched, call, clock>>

storeVars == <<rewrites, fetched>>

callVars == <<call>>

-----------------------------------------------------------------------------
(* Bounds *)

MaxFacts == 6          \* most facts a research call returns
MaxAttempts == 4       \* largest maxRetries the retry harness is started with

-----------------------------------------------------------------------------
(* Errors *)

NoTime == -1
NoId == 0

MkError(name, message, status) ==
    [name |-> name, message |-> message, status |-> status,
     rejectedFacts |-> <<>>, criticalIssues |-> <<>>]

NoError == MkError("none", <<>>, 0)

ErrRateLimitMessage == MkError("Error", <<"rate_limit", "_error">>, 0)
Err429Message       == MkError("Error", <<"429", "Too Many Requests">>, 0)
ErrStatus429        == MkError("APIError", <<"Too Many Requests">>, 429)
ErrNoMessage429     == MkError("APIError", <<>>, 429)
ErrParse            == MkError("Error", <<"Could not parse JSON">>, 0)
ErrStatus500        == MkError("APIError", <<"Internal Server Error">>, 500)
ErrMaxRetries       == MkError("Error", <<"Max retries exceeded">>, 0)

RateLimitErrors == {ErrRateLimitMessage, Err429Message, ErrStatus429, ErrNoMessage429}
OtherErrors     == {ErrParse, ErrStatus500}
ServiceErrors   == RateLimitErrors \cup OtherErrors

Includes(message, token) == \E k \in 1..Len(message) : message[k] = token

isRateLimit(error) ==
    \/ Includes(error.message, "rate_limit")
    \/ Includes(error.message, "429")
    \/ error.status = 429

-----------------------------------------------------------------------------
(* withRetry: the frame of one call, advanced at each await *)

DefaultMaxRetries == 2

IdleRetry ==
    [maxRetries |-> 0, i |-> 0, state |-> "idle", calls |-> 0, sleeps |-> 0,
     errors |-> <<>>, thrown |-> NoError]

\* the loop head `i < maxRetries`: call fn, or fall out of the loop
LoopHead(r) ==
    IF r.i < r.maxRetries
    THEN [r EXCEPT !.state = "calling", !.calls = @ + 1]
    ELSE [r EXCEPT !.state = "thrown", !.thrown = ErrMaxRetries]

WithRetryEnter(maxRetries) ==
    LoopHead([IdleRetry EXCEPT !.maxRetries = maxRetries])

WithRetryResolve(r) == [r EXCEPT !.state = "returned"]

WithRetryRejectExtraSleep(r, error) ==
    LET seen == [r EXCEPT !.errors = Append(@, error)] IN
    IF isRateLimit(error) /\ r.i < r.maxRetries
    THEN [seen EXCEPT !.state = "sleeping", !.sleeps = @ + 1]
    ELSE [seen EXCEPT !.state = "thrown", !.thrown = error]

WithRetryRejectRetryAll(r, error) ==
    LET seen == [r EXCEPT !.errors = Append(@, error)] IN
    IF r.i < r.maxRetries - 1
    THEN [seen EXCEPT !.state = "sleeping", !.sleeps = @ + 1]
    ELSE [seen EXCEPT !.state = "thrown", !.thrown = error]

WithRetryReject(r, error) ==
    LET seen == [r EXCEPT !.errors = Append(@, error)] IN
    IF isRateLimit(error) /\ r.i < r.maxRetries - 1
    THEN [seen EXCEPT !.state = "sleeping", !.sleeps = @ + 1]
    ELSE [seen EXCEPT !.state = "thrown", !.thrown = error]

\* `continue` after the 60 s sleep: i++ and the loop head
WithRetryAfterSleep(r) == LoopHead([r EXCEPT !.i = @ + 1])

-----------------------------------------------------------------------------
(* Data of one run *)

Tenants == {"clientA", "clientB"}
KnownAudiences == {"fleet-managers"}

Topics == {"E-Tech"}
Briefings == {"", "nadruk op TCO"}

NoRequest ==
    [topic |-> "none", targetAudience |-> "none", clientId |-> "none",
     briefing |-> "", versionNotes |-> ""]

\* the ContentRequest the create route builds from the body and the session
Requests ==
    [topic : Topics, targetAudience : KnownAudiences \cup {"students"},
     clientId : Tenants, briefing : Briefings, versionNotes : {""}]

\* a research fact is its claim's number; facts 1..n are the deduplicated list
FactList(n) == [k \in 1..n |-> k]

NoValidation ==
    [approved |-> <<>>, rejected |-> <<>>, approvalRate |-> [num |-> 0, den |-> 1]]

NoPartition == [given |-> FALSE, approved |-> <<>>, rejected |-> <<>>]

NoArticle ==
    [content |-> <<>>, wordCount |-> 0, titleLength |-> 0,
     metaDescriptionLength |-> 0]

Contents ==
    { <<"tekst">>,
      <<"tekst", "[PLACEHOLDER", ": beschrijving]">>,
      <<"ongeveer", "mogelijk", "beste", "tekst">>,
      <<"uniek", "[PLACEHOLDER", "]">> }

Articles ==
    { [content |-> c, wordCount |-> w, titleLength |-> t[1],
       metaDescriptionLength |-> t[2]] :
        c \in Contents, w \in {500, 700}, t \in {<<40, 150>>, <<61, 156>>} }

Issue(severity, check, description) ==
    [severity |-> severity, check |-> check, description |-> description]

NoCompliance ==
    [given |-> FALSE, approved |-> FALSE, overallScore |-> 0, issues |-> <<>>,
     source |-> "none"]

\* verdicts the model-assisted deep check can return
DeepIssueLists ==
    { <<>>,
      <<Issue("critical", "factVerification", "hallucinated spec")>>,
      <<Issue("warning", "seo", "title could be more specific"),
        Issue("critical", "factVerification", "hallucinated spec")>> }

DeepVerdicts ==
    { [given |-> TRUE, approved |-> a, overallScore |-> s, issues |-> l,
       source |-> "deep"] :
        a \in BOOLEAN, s \in {40, 87}, l \in DeepIssueLists }

ErrInsert == MkError("PostgrestError", <<"insert failed">>, 0)

-----------------------------------------------------------------------------
(* WorkflowLogger *)

NoData == <<>>

FindStep(s, name) ==
    IF \E k \in 1..Len(s) : s[k].name = name
    THEN CHOOSE k \in 1..Len(s) :
            /\ s[k].name = name
            /\ \A j \in 1..(k - 1) : s[j].name # name
    ELSE 0

startStepFirst(s, name, now) ==
    <<[name |-> name, status |-> "running", startTime |-> now,
       endTime |-> NoTime, data |-> NoData, error |-> ""]>> \o s

startStep(s, name, now) ==
    Append(s, [name |-> name, status |-> "running", startTime |-> now,
               endTime |-> NoTime, data |-> NoData, error |-> ""])

completeStep(s, name, data, now) ==
    LET k == FindStep(s, name) IN
    IF k = 0 THEN s
    ELSE [s EXCEPT ![k].status = "completed", ![k].endTime = now,
                   ![k].data = data]

-----------------------------------------------------------------------------
(* Fact validator *)

Select(facts, keep) ==
    LET F[k \in 0..Len(facts)] ==
            IF k = 0 THEN <<>>
            ELSE IF k \in keep THEN Append(F[k - 1], facts[k]) ELSE F[k - 1]
    IN F[Len(facts)]

Rejected(facts, approvedIdx) ==
    LET r == Select(facts, (1..Len(facts)) \ approvedIdx) IN
    [k \in 1..Len(r) |-> [claim |-> r[k], rejectionReason |-> "confidence too low"]]

MinApprovedFacts == 5

InsufficientFactsErrorNoList(rejected) ==
    MkError("InsufficientFactsError", <<"Only", "facts approved">>, 0)

InsufficientFactsError(rejected) ==
    [MkError("InsufficientFactsError", <<"Only", "facts approved">>, 0)
        EXCEPT !.rejectedFacts = rejected]

\* from the parsed classifier output to the return value or the thrown error
runFactValidatorNoHardStop(facts, parsed) ==
    [threw |-> FALSE, error |-> NoError,
     value |-> [approved |-> parsed.approved, rejected |-> parsed.rejected,
                approvalRate |->
                    IF Len(facts) > 0
                    THEN [num |-> Len(parsed.approved) * 100, den |-> Len(facts)]
                    ELSE [num |-> 0, den |-> 1]]]

runFactValidator(facts, parsed) ==
    LET approvalRate ==
            IF Len(facts) > 0
            THEN [num |-> Len(parsed.approved) * 100, den |-> Len(facts)]
            ELSE [num |-> 0, den |-> 1]
    IN  IF Len(parsed.approved) < MinApprovedFacts
        THEN [threw |-> TRUE, error |-> InsufficientFactsError(parsed.rejected),
              value |-> NoValidation]
        ELSE [threw |-> FALSE, error |-> NoError,
              value |-> [approved |-> parsed.approved,
                         rejected |-> parsed.rejected,
                         approvalRate |-> approvalRate]]

\* approvalRate < 0.6, on the fraction num/den
RateBelowSixTenths(rate) == rate.num * 10 < 6 * rate.den

-----------------------------------------------------------------------------
(* Compliance checker *)

avoidWords == <<"revolutionair", "beste", "uniek">>

vaguePatterns == <<"ongeveer", "mogelijk", "zou kunnen", "waarschijnlijk">>

Matches(text, words) ==
    LET M[k \in 0..Len(words)] ==
            IF k = 0 THEN <<>>
            ELSE IF Includes(text, words[k]) THEN Append(M[k - 1], words[k])
                 ELSE M[k - 1]
    IN M[Len(words)]

Max(a, b) == IF a > b THEN a ELSE b

validateToneOfVoice(text) ==
    LET issues == Matches(text, avoidWords) \o Matches(text, vaguePatterns)
        score  == Max(0, 100 - Len(issues) * 15)
    IN  [valid |-> score >= 70, issues |-> issues, score |-> score]

MinWordCount == 650
MaxTitleLength == 60
MaxMetaDescriptionLength == 155

runPreChecksNotCritical(a) ==
    [critical |-> FALSE, issues |-> <<>>]

runPreChecks(a) ==
    LET placeholder == Includes(a.content, "[PLACEHOLDER")
        toneCheck   == validateToneOfVoice(a.content)
        issues ==
            (IF placeholder
             THEN <<Issue("critical", "completeness", "Article contains [PLACEHOLDER] tags")>>
             ELSE <<>>)
            \o (IF a.wordCount < MinWordCount
                THEN <<Issue("warning", "completeness", "Article too short")>>
                ELSE <<>>)
            \o (IF a.titleLength > MaxTitleLength
                THEN <<Issue("warning", "seo", "Title too long")>>
                ELSE <<>>)
            \o (IF a.metaDescriptionLength > MaxMetaDescriptionLength
                THEN <<Issue("warning", "seo", "Meta description too long")>>
                ELSE <<>>)
            \o (IF ~toneCheck.valid
                THEN [k \in 1..Len(toneCheck.issues) |->
                        Issue("warning", "toneOfVoice", toneCheck.issues[k])]
                ELSE <<>>)
    IN  [critical |-> placeholder, issues |-> issues]

CriticalIssuesUnfiltered(issues) == issues

CriticalIssues(issues) ==
    LET C[k \in 0..Len(issues)] ==
            IF k = 0 THEN <<>>
            ELSE IF issues[k].severity = "critical"
                 THEN Append(C[k - 1], issues[k]) ELSE C[k - 1]
    IN C[Len(issues)]

ComplianceError(issues) ==
    [MkError("ComplianceError", <<"Article failed compliance check">>, 0)
        EXCEPT !.criticalIssues = issues]

\* deep is what the generator call produces if it is made: a verdict or an error
runComplianceChecker(a, deep) ==
    LET preChecks == runPreChecks(a) IN
    IF preChecks.critical
    THEN LET r == [given |-> TRUE, approved |-> FALSE, overallScore |-> 0,
                   issues |-> preChecks.issues, source |-> "precheck"]
         IN [threw |-> FALSE, error |-> NoError, value |-> r, computed |-> r,
             generatorCalls |-> 0]
    ELSE IF deep.failed
    THEN [threw |-> TRUE, error |-> deep.error, value |-> NoCompliance,
          computed |-> NoCompliance, generatorCalls |-> 1]
    ELSE IF ~deep.verdict.approved
    THEN [threw |-> TRUE,
          error |-> ComplianceError(CriticalIssues(deep.verdict.issues)),
          value |-> NoCompliance, computed |-> deep.verdict,
          generatorCalls |-> 1]
    ELSE [threw |-> FALSE, error |-> NoError, value |-> deep.verdict,
          computed |-> deep.verdict, generatorCalls |-> 1]

DeepOutcomes ==
    { [failed |-> FALSE, verdict |-> v, error |-> NoError] : v \in DeepVerdicts }
    \cup { [failed |-> TRUE, verdict |-> NoCompliance, error |-> e] : e \in ServiceErrors }

-----------------------------------------------------------------------------
(* saveArticle and the envelope *)

NoScore == -1

insertDataNoCompliance(a, c, req, warnings) ==
    [title_length |-> a.titleLength, content |-> a.content,
     topic |-> req.topic, target_audience |-> req.targetAudience,
     status |-> "draft", word_count |-> a.wordCount,
     client_id |-> req.clientId,
     compliance_score |-> NoScore,
     qualityWarnings |-> warnings]

insertDataNoWarnings(a, c, req, warnings) ==
    [title_length |-> a.titleLength, content |-> a.content,
     topic |-> req.topic, target_audience |-> req.targetAudience,
     status |-> "draft", word_count |-> a.wordCount,
     client_id |-> req.clientId,
     compliance_score |-> c.overallScore,
     qualityWarnings |-> <<>>]

insertData(a, c, req, warnings) ==
    [title_length |-> a.titleLength, content |-> a.content,
     topic |-> req.topic, target_audience |-> req.targetAudience,
     status |-> "draft", word_count |-> a.wordCount,
     client_id |-> req.clientId,
     compliance_score |-> c.overallScore,
     qualityWarnings |-> warnings]

\* columns the insert does not set
ColumnDefaults ==
    [version |-> 1, parent_article_id |-> NoId, version_notes |-> ""]

InsertedRow(rows, data) == [id |-> Len(rows) + 1] @@ data @@ ColumnDefaults

\* db is what the insert produces: the new row or an error
saveArticleSwallow(rows, data, db) ==
    [threw |-> FALSE, error |-> NoError,
     rows |-> IF db.failed THEN rows
              ELSE Append(rows, InsertedRow(rows, data)),
     id |-> Len(rows) + 1]

saveArticle(rows, data, db) ==
    IF db.failed
    THEN [threw |-> TRUE, error |-> db.error, rows |-> rows, id |-> NoId]
    ELSE [threw |-> FALSE, error |-> NoError,
          rows |-> Append(rows, InsertedRow(rows, data)),
          id |-> Len(rows) + 1]

DbOutcomes == {[failed |-> FALSE, error |-> NoError], [failed |-> TRUE, error |-> ErrInsert]}

NoResult == [kind |-> "none"]

Envelope(success, articleId, error, errorType, warnings, workflow) ==
    [kind |-> "return", success |-> success, articleId |-> articleId,
     error |-> error, errorType |-> errorType, qualityWarnings |-> warnings,
     workflow |-> workflow]

\* error.stack of an Error object: its name and the frames it was created in
Stack(error) == <<error.name, "at createContent (orchestrator.ts)">>

NoDetails ==
    [approved |-> 0, rejected |-> <<>>, issues |-> <<>>, name |-> "", stack |-> <<>>]

\* the catch block of createContent
CatchPropagateUnknown(error, workflow) ==
    IF error.name \in {"InsufficientFactsError", "ComplianceError"}
    THEN Envelope(FALSE, NoId, <<"rejected">>, "rejected", <<>>, workflow)
    ELSE [kind |-> "throw", error |-> error]

Catch(error, workflow) ==
    IF error.name = "InsufficientFactsError"
    THEN [errorDetails |->
            [NoDetails EXCEPT
                !.approved = Len(error.rejectedFacts),
                !.rejected =
                    [k \in 1..Len(error.rejectedFacts) |->
                        [claim |-> error.rejectedFacts[k].claim,
                         reason |-> error.rejectedFacts[k].rejectionReason]]]]
         @@ Envelope(FALSE, NoId, <<"Insufficient verified facts">>,
                     "insufficient_facts", <<>>, workflow)
    ELSE IF error.name = "ComplianceError"
    THEN [errorDetails |-> [NoDetails EXCEPT !.issues = error.criticalIssues]]
         @@ Envelope(FALSE, NoId, <<"Compliance check failed">>,
                     "compliance_failed", <<>>, workflow)
    ELSE [errorDetails |->
            [NoDetails EXCEPT !.name = error.name, !.stack = Stack(error)]]
         @@ Envelope(FALSE, NoId, error.message, "unknown", <<>>, workflow)

\* the value createContent returns after Storage
Success(a, c, id, warnings, workflow) ==
    [article |-> [id |-> id] @@ a, compliance |-> c]
    @@ Envelope(TRUE, id, <<>>, "", warnings, workflow)

-----------------------------------------------------------------------------
(* The articles table and the rewrite route *)

MaxRewrites == 2       \* rewrite requests, each handled once
MaxOriginals == 1      \* rows in the table up to which the create route is used

Procs == 1..MaxRewrites

NoRow ==
    [id |-> NoId] @@ insertData(NoArticle, NoCompliance, NoRequest, <<>>)
    @@ ColumnDefaults

\* rows of the table a query's .eq filters select
SelectById(rows, id) ==
    LET F[k \in 0..Len(rows)] ==
            IF k = 0 THEN <<>>
            ELSE IF rows[k].id = id THEN Append(F[k - 1], rows[k]) ELSE F[k - 1]
    IN F[Len(rows)]

SelectByIdAndClient(rows, id, clientId) ==
    LET F[k \in 0..Len(rows)] ==
            IF k = 0 THEN <<>>
            ELSE IF rows[k].id = id /\ rows[k].client_id = clientId
                 THEN Append(F[k - 1], rows[k]) ELSE F[k - 1]
    IN F[Len(rows)]

Sessions == Tenants \cup {"none"}        \* "none": no client_session cookie
VersionNotes == {"", "korter en zakelijker"}   \* "": versionNotes missing

NoWriterInput ==
    [approvedFacts |-> <<>>, topic |-> "none", targetAudience |-> "none",
     briefing |-> ""]

NoResponse ==
    [status |-> 0, success |-> FALSE, articleId |-> NoId, version |-> 0,
     parentArticleId |-> NoId]

Failure(status) == [NoResponse EXCEPT !.status = status]

IdleRewrite ==
    [pc |-> "idle", clientId |-> "none", id |-> NoId, versionNotes |-> "",
     overlapped |-> FALSE,
     currentArticle |-> NoRow, parentArticleId |-> NoId, newVersion |-> 0,
     orchestratorInput |-> NoRequest, writerInput |-> NoWriterInput,
     articleId |-> NoId, response |-> NoResponse]

\* a handler that answered with a failure: its locals are gone
Failed(status) == [IdleRewrite EXCEPT !.pc = "done", !.response = Failure(status)]

NoCall == [fn |-> "none"]

NoFetch == [clientId |-> "none", status |-> 0, success |-> FALSE, article |-> NoRow]

\* Step 2 of the route: the lineage root and the next version number
VersionInfoParentIsSource(current) ==
    [parentArticleId |-> current.id,
     newVersion |-> (IF current.version = 0 THEN 1 ELSE current.version) + 1]

VersionInfo(current) ==
    [parentArticleId |->
        IF current.parent_article_id # NoId
        THEN current.parent_article_id ELSE current.id,
     newVersion |-> (IF current.version = 0 THEN 1 ELSE current.version) + 1]

\* Step 3 of the route: the object handed to createContent
orchestratorInput(current, versionNotes, clientId) ==
    [topic |-> current.topic,
     targetAudience |->
        IF current.target_audience = "" THEN "general" ELSE current.target_audience,
     clientId |-> clientId,
     briefing |-> "",
     versionNotes |-> versionNotes]

\* the object createContent hands to runContentWriter
WriterInput(req, approvedFacts) ==
    [approvedFacts |-> approvedFacts, topic |-> req.topic,
     targetAudience |-> req.targetAudience, briefing |-> req.briefing]

\* Step 4 of the route: .update({version, parent_article_id, version_notes}).eq('id', ...)
UpdateVersionOfSource(rows, r) ==
    [k \in 1..Len(rows) |->
        IF rows[k].id = r.currentArticle.id
        THEN [rows[k] EXCEPT !.version = r.newVersion,
                             !.parent_article_id = r.parentArticleId,
                             !.version_notes = r.versionNotes]
        ELSE rows[k]]

UpdateVersion(rows, r) ==
    [k \in 1..Len(rows) |->
        IF rows[k].id = r.articleId
        THEN [rows[k] EXCEPT !.version = r.newVersion,
                             !.parent_article_id = r.parentArticleId,
                             !.version_notes = r.versionNotes]
        ELSE rows[k]]

\* what a createContent run called by a route stores when it succeeds: an
\* article that passed the checks; a rewrite run writes another text
RunArticles ==
    { a \in Articles :
        /\ a.wordCount = 700 /\ a.titleLength = 40
        /\ ~Includes(a.content, "[PLACEHOLDER") }

CreatedArticles == { a \in RunArticles : Len(a.content) = 1 }

RewrittenArticles == RunArticles \ CreatedArticles

RunCompliance ==
    [given |-> TRUE, approved |-> TRUE, overallScore |-> 87, issues |-> <<>>,
     source |-> "deep"]

DbOk == [failed |-> FALSE, error |-> NoError]

StoredByRun(rows, a, req) ==
    saveArticle(rows, insertData(a, RunCompliance, req, <<>>), DbOk)

-----------------------------------------------------------------------------
(* The retry harness: withRetry(fn, maxRetries) on an arbitrary fn *)

IdleRun ==
    /\ pc = "idle"
    /\ request = NoRequest
    /\ steps = <<>>
    /\ qualityWarnings = <<>>
    /\ research = <<>>
    /\ validation = NoValidation
    /\ article = NoArticle
    /\ compliance = NoCompliance
    /\ articles = <<>>
    /\ writerCalls = <<>>
    /\ deepCalls = 0
    /\ partition = NoPartition
    /\ verdict = NoCompliance
    /\ caught = NoError
    /\ result = NoResult
    /\ rewrites = [p \in Procs |-> IdleRewrite]
    /\ fetched = NoFetch
    /\ clock = 0

InitRetry ==
    /\ call = NoCall
    /\ IdleRun
    /\ \E m \in 0..MaxAttempts : retry = WithRetryEnter(m)

FnResolves ==
    /\ retry.state = "calling"
    /\ retry' = WithRetryResolve(retry)
    /\ UNCHANGED runVars

FnRejects ==
    /\ retry.state = "calling"
    /\ \E error \in ServiceErrors : retry' = WithRetryReject(retry, error)
    /\ UNCHANGED runVars

BackoffElapsed ==
    /\ retry.state = "sleeping"
    /\ retry' = WithRetryAfterSleep(retry)
    /\ UNCHANGED runVars

NextRetry == FnResolves \/ FnRejects \/ BackoffElapsed

SpecRetry == InitRetry /\ [][NextRetry]_vars

-----------------------------------------------------------------------------
(* createContent: one action per await *)

Init ==
    /\ IdleRun
    /\ call = NoCall
    /\ retry = IdleRetry

\* the catch block: the run returns (or throws) and is over
Fails(error, workflow) ==
    /\ caught' = error
    /\ steps' = workflow
    /\ result' = Catch(error, workflow)
    /\ pc' = "done"

\* entry up to the first await: logger, startStep('Research'), withRetry's first call
StartRun ==
    /\ pc = "idle"
    /\ \E req \in Requests : request' = req
    /\ steps' = startStep(steps, "Research", clock)
    /\ retry' = WithRetryEnter(DefaultMaxRetries)
    /\ pc' = "research"
    /\ clock' = clock + 1
    /\ UNCHANGED <<storeVars, callVars>>
    /\ UNCHANGED <<qualityWarnings, research, validation, article, compliance,
                   articles, writerCalls, deepCalls, partition, verdict,
                   caught, result>>

\* runResearchAgent resolves: Research completes, Validation starts
ResearchResolves ==
    /\ pc = "research"
    /\ retry.state = "calling"
    /\ retry' = WithRetryResolve(retry)
    /\ \E n \in 0..MaxFacts :
        /\ research' = FactList(n)
        /\ steps' = startStep(completeStep(steps, "Research", <<n>>, clock),
                              "Validation", clock)
    /\ pc' = "validation"
    /\ clock' = clock + 1
    /\ UNCHANGED <<storeVars, callVars>>
    /\ UNCHANGED <<request, qualityWarnings, validation, article, compliance,
                   articles, writerCalls, deepCalls, partition, verdict,
                   caught, result>>

\* runResearchAgent rejects: withRetry sleeps or rethrows
ResearchRejects ==
    /\ pc = "research"
    /\ retry.state = "calling"
    /\ \E error \in ServiceErrors :
        LET r == WithRetryReject(retry, error) IN
        /\ retry' = r
        /\ IF r.state = "sleeping"
           THEN /\ pc' = "backoff"
                /\ UNCHANGED <<steps, caught, result>>
           ELSE Fails(r.thrown, steps)
    /\ clock' = clock + 1
    /\ UNCHANGED <<storeVars, callVars>>
    /\ UNCHANGED <<request, qualityWarnings, research, validation, article,
                   compliance, articles, writerCalls, deepCalls, partition,
                   verdict>>

\* the 60 s backoff is over: next attempt
ResearchBackoffElapsed ==
    /\ pc = "backoff"
    /\ retry.state = "sleeping"
    /\ LET r == WithRetryAfterSleep(retry) IN
        /\ retry' = r
        /\ IF r.state = "calling"
           THEN /\ pc' = "research"
                /\ UNCHANGED <<steps, caught, result>>
           ELSE Fails(r.thrown, steps)
    /\ clock' = clock + 1
    /\ UNCHANGED <<storeVars, callVars>>
    /\ UNCHANGED <<request, qualityWarnings, research, validation, article,
                   compliance, articles, writerCalls, deepCalls, partition,
                   verdict>>

GateWarnings(v) ==
    (IF Len(v.approved) < MinApprovedFacts THEN <<"low fact count">> ELSE <<>>)
    \o (IF RateBelowSixTenths(v.approvalRate) THEN <<"low approval rate">> ELSE <<>>)

\* the validator's generator call resolves with a partition of the facts
ValidationResolves ==
    /\ pc = "validation"
    /\ \E approvedIdx \in SUBSET (1..Len(research)) :
        LET parsed == [given |-> TRUE,
                       approved |-> Select(research, approvedIdx),
                       rejected |-> Rejected(research, approvedIdx)]
            out == runFactValidator(research, parsed)
        IN  /\ partition' = parsed
            /\ IF out.threw
               THEN /\ Fails(out.error, steps)
                    /\ UNCHANGED <<validation, qualityWarnings, writerCalls>>
               ELSE /\ validation' = out.value
                    /\ qualityWarnings' = qualityWarnings \o GateWarnings(out.value)
                    /\ steps' = startStep(
                            completeStep(steps, "Validation",
                                <<Len(out.value.approved), Len(out.value.rejected),
                                  out.value.approvalRate.num>>, clock),
                            "Writing", clock)
                    /\ writerCalls' = Append(writerCalls, Len(out.value.approved))
                    /\ pc' = "writing"
                    /\ UNCHANGED <<caught, result>>
    /\ clock' = clock + 1
    /\ UNCHANGED <<storeVars, callVars>>
    /\ UNCHANGED <<request, retry, research, article, compliance, articles,
                   deepCalls, verdict>>

\* the validator's generator call fails or its answer does not parse
ValidationRejects ==
    /\ pc = "validation"
    /\ \E error \in ServiceErrors : Fails(error, steps)
    /\ clock' = clock + 1
    /\ UNCHANGED <<storeVars, callVars>>
    /\ UNCHANGED <<request, retry, qualityWarnings, research, validation,
                   article, compliance, articles, writerCalls, deepCalls,
                   partition, verdict>>

ErrUnknownAudience == MkError("Error", <<"Unknown target audience">>, 0)

\* runContentWriter resolves with an article: Writing completes, Compliance starts
WritingResolves ==
    /\ pc = "writing"
    /\ request.targetAudience \in KnownAudiences
    /\ \E a \in Articles :
        /\ article' = a
        /\ steps' = startStep(
                completeStep(steps, "Writing", <<a.wordCount>>, clock),
                "Compliance", clock)
    /\ pc' = "compliance"
    /\ clock' = clock + 1
    /\ UNCHANGED <<storeVars, callVars>>
    /\ UNCHANGED <<request, retry, qualityWarnings, research, validation,
                   compliance, articles, writerCalls, deepCalls, partition,
                   verdict, caught, result>>

\* runContentWriter rejects: unknown audience, generator error, unparsable answer
WritingRejects ==
    /\ pc = "writing"
    /\ IF request.targetAudience \notin KnownAudiences
       THEN Fails(ErrUnknownAudience, steps)
       ELSE \E error \in ServiceErrors : Fails(error, steps)
    /\ clock' = clock + 1
    /\ UNCHANGED <<storeVars, callVars>>
    /\ UNCHANGED <<request, retry, qualityWarnings, research, validation,
                   article, compliance, articles, writerCalls, deepCalls,
                   partition, verdict>>

ComplianceWarnings(c) ==
    IF ~c.approved
    THEN <<"compliance check failed">>
         \o (IF Len(CriticalIssues(c.issues)) > 0 THEN <<"critical issues">> ELSE <<>>)
    ELSE <<>>

\* runComplianceChecker settles: Compliance completes and Storage starts, or the catch
ComplianceSettles ==
    /\ pc = "compliance"
    /\ \E deep \in DeepOutcomes :
        LET out == runComplianceChecker(article, deep) IN
        /\ deepCalls' = deepCalls + out.generatorCalls
        /\ verdict' = out.computed
        /\ IF out.threw
           THEN /\ Fails(out.error, steps)
                /\ UNCHANGED <<compliance, qualityWarnings>>
           ELSE /\ compliance' = out.value
                /\ qualityWarnings' = qualityWarnings \o ComplianceWarnings(out.value)
                /\ steps' = startStep(
                        completeStep(steps, "Compliance",
                            <<IF out.value.approved THEN 1 ELSE 0,
                              out.value.overallScore>>, clock),
                        "Storage", clock)
                /\ pc' = "storage"
                /\ UNCHANGED <<caught, result>>
    /\ clock' = clock + 1
    /\ UNCHANGED <<storeVars, callVars>>
    /\ UNCHANGED <<request, retry, research, validation, article, articles,
                   writerCalls, partition>>

\* the insert settles: Storage completes and the run returns success, or the catch
StorageSettles ==
    /\ pc = "storage"
    /\ \E db \in DbOutcomes :
        LET out == saveArticle(articles,
                        insertData(article, compliance, request, qualityWarnings), db)
        IN  /\ articles' = out.rows
            /\ IF out.threw
               THEN Fails(out.error, steps)
               ELSE LET workflow == completeStep(steps, "Storage", <<out.id>>, clock) IN
                    /\ steps' = workflow
                    /\ result' = Success(article, compliance, out.id,
                                          qualityWarnings, workflow)
                    /\ pc' = "done"
                    /\ UNCHANGED caught
    /\ clock' = clock + 1
    /\ UNCHANGED <<storeVars, callVars>>
    /\ UNCHANGED <<request, retry, qualityWarnings, research, validation,
                   article, compliance, writerCalls, deepCalls, partition,
                   verdict>>

Next ==
    \/ StartRun
    \/ ResearchResolves
    \/ ResearchRejects
    \/ ResearchBackoffElapsed
    \/ ValidationResolves
    \/ ValidationRejects
    \/ WritingResolves
    \/ WritingRejects
    \/ ComplianceSettles
    \/ StorageSettles

Spec == Init /\ [][Next]_vars

-----------------------------------------------------------------------------
(* Properties of the run *)

StageOrder == <<"Research", "Validation", "Writing", "Compliance", "Storage">>

StepNames == {steps[k].name : k \in 1..Len(steps)}

Returned == pc = "done" /\ result.kind = "return"

ComplianceRejectionStopsRun ==
    (verdict.given /\ ~verdict.approved) =>
        /\ Returned
        /\ result.success = FALSE
        /\ result.errorType = "compliance_failed"
        /\ "Storage" \notin StepNames
        /\ articles = <<>>

\* C3: an article whose content contains a placeholder marker yields
\* approved=false with a critical 'completeness' issue, and the generator is
\* never called for the deep check.
ComplianceRan == article # NoArticle /\ pc \in {"storage", "done"}

PlaceholderShortCircuits ==
    Includes(article.content, "[PLACEHOLDER") =>
        /\ deepCalls = 0
        /\ ComplianceRan =>
            /\ verdict.given
            /\ ~verdict.approved
            /\ \E k \in 1..Len(verdict.issues) :
                /\ verdict.issues[k].severity = "critical"
                /\ verdict.issues[k].check = "completeness"

PlaceholderArticleChecked ==
    /\ ComplianceRan
    /\ Includes(article.content, "[PLACEHOLDER")
    /\ verdict.source = "precheck"

\* C4: on every exit of createContent every step of the returned ledger is
\* 'completed' or 'failed', never 'running', and has a start time, an end time
\* and a success payload or an error string.
StepSettled(s) ==
    /\ s.status \in {"completed", "failed"}
    /\ s.startTime # NoTime
    /\ s.endTime # NoTime
    /\ (s.data # NoData \/ s.error # "")

LedgerSettledOnExit ==
    Returned =>
        \A k \in 1..Len(result.workflow) : StepSettled(result.workflow[k])

\* C5: the stages start in the order Research, Validation, Writing,
\* Compliance, Storage; a stage starts only after the previous one completed,
\* none starts twice, and after a stage fails no later stage starts: the
\* ledger is a prefix of the five-stage sequence.
StagesInOrder ==
    /\ Len(steps) <= Len(StageOrder)
    /\ \A k \in 1..Len(steps) : steps[k].name = StageOrder[k]
    /\ \A k \in 1..(Len(steps) - 1) :
        /\ steps[k].status = "completed"
        /\ steps[k].endTime # NoTime
        /\ steps[k].endTime <= steps[k + 1].startTime
    /\ caught # NoError =>
        /\ pc = "done"
        /\ steps[Len(steps)].status # "completed"

AllFiveStagesRan ==
    /\ pc = "done"
    /\ Len(steps) = 5
    /\ steps[5].status = "completed"

StorageFailureNotSwallowed ==
    /\ caught = ErrInsert =>
        /\ Returned
        /\ result.success = FALSE
        /\ \A k \in 1..4 : steps[k].status = "completed"
        /\ articles = <<>>
    /\ (Returned /\ result.success) =>
        /\ result.articleId # NoId
        /\ \E k \in 1..Len(articles) :
            /\ articles[k].id = result.articleId
            /\ articles[k].content = article.content
            /\ articles[k].client_id = request.clientId

InsertFailed ==
    /\ pc = "done"
    /\ caught = ErrInsert
    /\ Len(steps) = 5

-----------------------------------------------------------------------------
(* Properties of withRetry *)

AllRateLimited(r) == \A k \in 1..Len(r.errors) : isRateLimit(r.errors[k])

\* C8: for maxAttempts >= 1, a call that always raises a rate-limit error is
\* invoked exactly maxAttempts times, with one backoff sleep between
\* consecutive attempts, and withRetry then ends with an error.
RetryBound ==
    (retry.maxRetries >= 1 /\ AllRateLimited(retry)) =>
        /\ retry.calls <= retry.maxRetries
        /\ retry.state = "calling" => retry.sleeps = retry.calls - 1
        /\ retry.state = "sleeping" =>
            retry.sleeps = retry.calls /\ retry.calls < retry.maxRetries
        /\ (retry.state = "thrown") =>
            /\ retry.calls = retry.maxRetries
            /\ Len(retry.errors) = retry.maxRetries
            /\ retry.sleeps = retry.maxRetries - 1
            /\ retry.thrown # NoError

RetriesExhausted ==
    /\ retry.maxRetries = 3
    /\ retry.state = "thrown"
    /\ Len(retry.errors) = 3
    /\ AllRateLimited(retry)

\* C9: when every attempt raised a rate-limit error and the attempts are
\* exhausted, the error raised is the generic 'Max retries exceeded' error.
ExhaustedRaisesMaxRetries ==
    (/\ retry.maxRetries >= 1
     /\ retry.state = "thrown"
     /\ Len(retry.errors) = retry.maxRetries
     /\ AllRateLimited(retry)) =>
        retry.thrown = ErrMaxRetries

\* C10: an error that is not a rate-limit error is never retried: the attempt
\* that raised it is the last one, no sleep follows, and that same error is
\* rethrown, for every maxAttempts >= 1.
NonRateLimitNeverRetried ==
    \A k \in 1..Len(retry.errors) :
        ~isRateLimit(retry.errors[k]) =>
            /\ k = Len(retry.errors)
            /\ retry.state = "thrown"
            /\ retry.thrown = retry.errors[k]
            /\ retry.calls = k
            /\ retry.sleeps = k - 1

ParseErrorRethrown ==
    /\ retry.maxRetries >= 2
    /\ retry.state = "thrown"
    /\ retry.errors = <<ErrParse>>
    /\ retry.calls = 1

-----------------------------------------------------------------------------
(* Retry policy across the stages *)

\* calls made to the external service of the stage the run is in
StageAttempts ==
    IF Len(steps) = 1 THEN retry.calls
    ELSE IF Len(steps) = 3 THEN Len(writerCalls)
    ELSE deepCalls

\* C11: research, writing and compliance are each wrapped in the retry
\* policy: a rate-limit error of such a stage fails the run only after the
\* stage's retries are exhausted.
RateLimitRetriedInEveryStage ==
    (/\ pc = "done"
     /\ caught # NoError
     /\ isRateLimit(caught)
     /\ Len(steps) \in {1, 3, 4}) =>
        StageAttempts = DefaultMaxRetries

-----------------------------------------------------------------------------
(* Approval rate *)

\* C19: the approvalRate of the ValidationResult equals |approved| / |facts|,
\* a fraction between 0 and 1, and is 0 for an empty fact list.
ApprovalRateIsFraction ==
    validation # NoValidation =>
        /\ validation.approvalRate.num <= validation.approvalRate.den
        /\ validation.approvalRate.num * Len(research)
            = Len(validation.approved) * validation.approvalRate.den

-----------------------------------------------------------------------------
(* The fact gate on larger fact lists: runs that are awaiting the validator *)

MaxGateFacts == 9      \* most facts of a run that starts at the validator

InitGate ==
    /\ pc = "validation"
    /\ \E req \in Requests : request = req
    /\ \E n \in 0..MaxGateFacts :
        /\ research = FactList(n)
        /\ steps = startStep(
                completeStep(startStep(<<>>, "Research", 0), "Research", <<n>>, 1),
                "Validation", 1)
    /\ retry = WithRetryResolve(WithRetryEnter(DefaultMaxRetries))
    /\ qualityWarnings = <<>>
    /\ validation = NoValidation
    /\ article = NoArticle
    /\ compliance = NoCompliance
    /\ articles = <<>>
    /\ writerCalls = <<>>
    /\ deepCalls = 0
    /\ partition = NoPartition
    /\ verdict = NoCompliance
    /\ caught = NoError
    /\ result = NoResult
    /\ rewrites = [p \in Procs |-> IdleRewrite]
    /\ fetched = NoFetch
    /\ call = NoCall
    /\ clock = 2

NextGate == ValidationResolves \/ ValidationRejects

SpecGate == InitGate /\ [][NextGate]_vars

\* C20: with exactly 5 approved facts and approval rate >= 0.6 the run goes on
\* to Writing with no gate warning; with 5 or more approved facts that are
\* less than 60% of the input facts it goes on to Writing with a
\* low-approval-rate warning in qualityWarnings.
SoftGate ==
    (partition.given /\ Len(partition.approved) >= 5) =>
        /\ pc = "writing"
        /\ IF 10 * Len(partition.approved) < 6 * Len(research)
           THEN Includes(qualityWarnings, "low approval rate")
           ELSE Len(partition.approved) = 5 => qualityWarnings = <<>>

-----------------------------------------------------------------------------
(* The routes over the shared articles table *)

InFlight(r) == r.pc \notin {"idle", "done"}

\* the fields of the run that the routes do not touch
IdleRunFields ==
    /\ pc = "idle" /\ request = NoRequest /\ steps = <<>>
    /\ qualityWarnings = <<>> /\ retry = IdleRetry
    /\ research = <<>> /\ validation = NoValidation
    /\ article = NoArticle /\ compliance = NoCompliance
    /\ writerCalls = <<>> /\ deepCalls = 0
    /\ partition = NoPartition /\ verdict = NoCompliance
    /\ caught = NoError /\ result = NoResult

InitRewrite ==
    /\ IdleRunFields
    /\ call = NoCall
    /\ articles = <<>>
    /\ rewrites = [p \in Procs |-> IdleRewrite]
    /\ fetched = NoFetch
    /\ clock = 0

UnchangedRun ==
    UNCHANGED <<pc, request, steps, qualityWarnings, retry, research, validation,
                article, compliance, writerCalls, deepCalls, partition, verdict,
                caught, result, call, clock>>

CreateRequests ==
    { req \in Requests : req.targetAudience \in KnownAudiences /\ req.briefing = "" }

\* POST /api/content/create, a run that stores its article
CreateArticle ==
    /\ Len(articles) < MaxOriginals
    /\ \E req \in CreateRequests, a \in CreatedArticles :
        articles' = StoredByRun(articles, a, req).rows
    /\ UNCHANGED <<rewrites, fetched>>
    /\ UnchangedRun

\* POST /api/articles/[id]/rewrite up to the select
RewriteReceived(p) ==
    /\ rewrites[p].pc = "idle"
    /\ \A q \in Procs : q < p => rewrites[q].pc # "idle"   \* requests are numbered as they arrive
    /\ \E session \in Sessions, id \in 1..(Len(articles) + 1), notes \in VersionNotes :
        LET overlap == \E q \in Procs : InFlight(rewrites[q])
            settled ==
                IF session = "none"
                THEN Failed(401)
                ELSE IF notes = ""
                THEN Failed(400)
                ELSE [rewrites[p] EXCEPT !.pc = "fetch", !.clientId = session,
                                         !.id = id, !.versionNotes = notes,
                                         !.overlapped = overlap]
        IN rewrites' =
            [q \in Procs |->
                IF q = p THEN settled
                ELSE IF InFlight(rewrites[q]) /\ InFlight(settled)
                THEN [rewrites[q] EXCEPT !.overlapped = TRUE]
                ELSE rewrites[q]]
    /\ UNCHANGED <<articles, fetched>>
    /\ UnchangedRun

\* the select settles: 404, or steps 2 and 3 and the call of createContent
RewriteFetched(p) ==
    /\ rewrites[p].pc = "fetch"
    /\ LET r == rewrites[p]
           found == SelectByIdAndClient(articles, r.id, r.clientId)
       IN rewrites' =
            [rewrites EXCEPT ![p] =
                IF found = <<>>
                THEN Failed(404)
                ELSE LET info == VersionInfo(found[1])
                     IN [r EXCEPT !.pc = "run",
                                  !.currentArticle = found[1],
                                  !.parentArticleId = info.parentArticleId,
                                  !.newVersion = info.newVersion,
                                  !.orchestratorInput =
                                      orchestratorInput(found[1], r.versionNotes,
                                                        r.clientId)]]
    /\ UNCHANGED <<articles, fetched>>
    /\ UnchangedRun

\* the select settles with fetchError
RewriteFetchFails(p) ==
    /\ rewrites[p].pc = "fetch"
    /\ rewrites' = [rewrites EXCEPT ![p] = Failed(500)]
    /\ UNCHANGED <<articles, fetched>>
    /\ UnchangedRun

\* the run returns success: false
RewriteRunFails(p) ==
    /\ rewrites[p].pc = "run"
    /\ rewrites' = [rewrites EXCEPT ![p] = Failed(500)]
    /\ UNCHANGED <<articles, fetched>>
    /\ UnchangedRun

\* the run writes and stores its article and returns; the route issues the update
RewriteRunStores(p) ==
    /\ rewrites[p].pc = "run"
    /\ \E a \in RewrittenArticles :
        LET req == rewrites[p].orchestratorInput
            saved == StoredByRun(articles, a, req)
        IN /\ articles' = saved.rows
           /\ rewrites' =
                [rewrites EXCEPT ![p].pc = "update",
                                 ![p].writerInput =
                                    WriterInput(req, FactList(MinApprovedFacts)),
                                 ![p].articleId = saved.id]
    /\ UNCHANGED fetched
    /\ UnchangedRun

\* the update settles
RewriteUpdateSettles(p) ==
    /\ rewrites[p].pc = "update"
    /\ LET r == rewrites[p]
       IN /\ articles' = UpdateVersion(articles, r)
          /\ rewrites' =
                [rewrites EXCEPT ![p].pc = "done",
                                 ![p].response =
                                    [status |-> 200, success |-> TRUE,
                                     articleId |-> r.articleId,
                                     version |-> r.newVersion,
                                     parentArticleId |-> r.parentArticleId]]
    /\ UNCHANGED fetched
    /\ UnchangedRun

\* the update settles with updateError
RewriteUpdateFails(p) ==
    /\ rewrites[p].pc = "update"
    /\ rewrites' = [rewrites EXCEPT ![p] = Failed(500)]
    /\ UNCHANGED <<articles, fetched>>
    /\ UnchangedRun

\* GET /api/articles/[id]
ReadArticle ==
    /\ fetched = NoFetch
    /\ \E session \in Tenants, id \in 1..(Len(articles) + 1) :
        LET found == SelectById(articles, id)
        IN fetched' =
            IF found = <<>>
            THEN [clientId |-> session, status |-> 404, success |-> FALSE,
                  article |-> NoRow]
            ELSE [clientId |-> session, status |-> 200, success |-> TRUE,
                  article |-> found[1]]
    /\ UNCHANGED <<articles, rewrites>>
    /\ UnchangedRun

NextRewrite ==
    \/ CreateArticle
    \/ ReadArticle
    \/ \E p \in Procs :
        \/ RewriteReceived(p)
        \/ RewriteFetched(p)
        \/ RewriteFetchFails(p)
        \/ RewriteRunFails(p)
        \/ RewriteRunStores(p)
        \/ RewriteUpdateSettles(p)
        \/ RewriteUpdateFails(p)

SpecRewrite == InitRewrite /\ [][NextRewrite]_vars

-----------------------------------------------------------------------------
(* Properties of the routes and of the stored rows *)

Succeeded == { p \in Procs : rewrites[p].pc = "done" /\ rewrites[p].response.success }

RowIds == 1..Len(articles)

Root(row) == IF row.parent_article_id = NoId THEN row.id ELSE row.parent_article_id

Lineage(e) == { k \in RowIds : Root(articles[k]) = e }

\* every request has been answered and the successful ones rewrote article e,
\* a version-1 article without parent, one after the other
SequentialRewritesOf(e) ==
    /\ \A p \in Procs : ~InFlight(rewrites[p])
    /\ Succeeded # {}
    /\ \A p \in Succeeded :
        /\ ~rewrites[p].overlapped
        /\ rewrites[p].currentArticle.id = e
        /\ rewrites[p].currentArticle.version = 1
        /\ rewrites[p].currentArticle.parent_article_id = NoId

\* C12: after N sequential successful rewrites of the same version-1 article the
\* table holds the original and N rows whose parent is the original, their
\* versions are exactly 1..N+1, and the original row is as it was.
SequentialRewritesNumberVersions ==
    \A e \in RowIds :
        SequentialRewritesOf(e) =>
            /\ Cardinality(Lineage(e)) = Cardinality(Succeeded) + 1
            /\ { articles[k].version : k \in Lineage(e) }
                = 1..(Cardinality(Succeeded) + 1)
            /\ \A j, k \in Lineage(e) :
                articles[j].version = articles[k].version => j = k
            /\ \A p \in Succeeded : articles[e] = rewrites[p].currentArticle

\* C13: in every state of the table each lineage has exactly one row without
\* parent, every other row of it points to that row, and no two rows of one
\* lineage carry the same version.
LineageWellFormed ==
    /\ \A k \in RowIds :
        articles[k].parent_article_id # NoId =>
            /\ articles[k].parent_article_id \in RowIds
            /\ articles[articles[k].parent_article_id].parent_article_id = NoId
    /\ \A j, k \in RowIds :
        (Root(articles[j]) = Root(articles[k])
         /\ articles[j].version = articles[k].version) => j = k

\* C14: no step deletes a row, and a row changes only when a rewrite's update
\* settles on the row that rewrite's own run created, which is not its source.
RewriteOnlyUpdatesItsOwnRow ==
    [][/\ Len(articles') >= Len(articles)
       /\ \A k \in RowIds :
            articles'[k] # articles[k] =>
                \E p \in Procs :
                    /\ rewrites[p].pc = "update"
                    /\ rewrites[p].articleId = k
                    /\ rewrites[p].currentArticle.id # k
                    /\ \A q \in Procs \ {p} : rewrites[q].articleId # k]_vars

SourceKeptAfterRewrite ==
    \E p \in Succeeded :
        /\ articles[rewrites[p].articleId].version_notes = rewrites[p].versionNotes
        /\ articles[rewrites[p].currentArticle.id].content
            # articles[rewrites[p].articleId].content

\* C15: when a rewrite of article E succeeds, the new row has
\* parent = E.parent or else E.id, version = E.version + 1 and the request's
\* notes, and the response returns that row's id, version and parent.
RewriteSuccessStamps ==
    \A p \in Succeeded :
        LET r == rewrites[p]
            E == r.currentArticle
            row == articles[r.articleId]
        IN /\ row.parent_article_id =
                (IF E.parent_article_id # NoId THEN E.parent_article_id ELSE E.id)
           /\ row.version = E.version + 1
           /\ row.version_notes = r.versionNotes
           /\ r.response.articleId = row.id
           /\ r.response.version = row.version
           /\ r.response.parentArticleId = row.parent_article_id

RewroteARewrite ==
    \E p \in Succeeded :
        /\ rewrites[p].currentArticle.parent_article_id # NoId
        /\ rewrites[p].response.version = 3

\* C16: the input the writer of a rewrite run receives contains the request's
\* versionNotes next to the topic and the audience of the source article.
VersionNotesReachWriter ==
    \A p \in Procs :
        rewrites[p].writerInput # NoWriterInput =>
            /\ rewrites[p].writerInput.topic = rewrites[p].currentArticle.topic
            /\ rewrites[p].writerInput.targetAudience
                = rewrites[p].currentArticle.target_audience
            /\ rewrites[p].versionNotes
                \in { rewrites[p].writerInput.topic,
                      rewrites[p].writerInput.targetAudience,
                      rewrites[p].writerInput.briefing }

\* C17: in every state of a run a stored row carries the compliance score of the
\* verdict the run obtained: no state shows the row without it.
ComplianceStoredWithArticle ==
    \A k \in RowIds :
        /\ compliance.given
        /\ articles[k].compliance_score = compliance.overallScore
        /\ articles[k].content = article.content

ArticleStored ==
    /\ pc = "done"
    /\ result.success
    /\ Len(articles) = 1
    /\ articles[result.articleId].compliance_score > 0

-----------------------------------------------------------------------------
(* research-agent: deduplicateFacts on a list of facts *)

MaxDedupFacts == 3     \* longest list deduplicateFacts is called with

\* claim texts as sequences of characters
ClaimTexts ==
    { <<>>, <<" ">>, <<"a">>, <<"A">>, <<" ", "a">>, <<"a", " ">>,
      <<"a", " ", "b">>, <<"A", " ", "B">> }

FactsOfLength(n) == [1..n -> { [claim |-> t] : t \in ClaimTexts }]

toLowerCase(text) ==
    [k \in 1..Len(text) |->
        IF text[k] = "A" THEN "a" ELSE IF text[k] = "B" THEN "b" ELSE text[k]]

WhiteSpace == {" "}

RECURSIVE trimStart(_)
trimStart(text) ==
    IF text # <<>> /\ Head(text) \in WhiteSpace THEN trimStart(Tail(text)) ELSE text

RECURSIVE trimEnd(_)
trimEnd(text) ==
    IF text # <<>> /\ text[Len(text)] \in WhiteSpace
    THEN trimEnd(SubSeq(text, 1, Len(text) - 1)) ELSE text

trim(text) == trimEnd(trimStart(text))

\* removal in place while iterating by index: the element after a removed one is skipped
RECURSIVE SpliceLoop(_, _, _)
SpliceLoop(list, i, seen) ==
    IF i > Len(list) THEN list
    ELSE LET key == trim(toLowerCase(list[i].claim)) IN
         IF key \in seen
         THEN SpliceLoop(SubSeq(list, 1, i - 1) \o SubSeq(list, i + 1, Len(list)),
                         i + 1, seen)
         ELSE SpliceLoop(list, i + 1, seen \cup {key})

deduplicateFactsSplice(facts) ==
    [facts |-> SpliceLoop(facts, 1, {}), unique |-> SpliceLoop(facts, 1, {})]

deduplicateFactsCaseSensitive(facts) ==
    LET loop[k \in 0..Len(facts)] ==
            IF k = 0 THEN [seen |-> {}, unique |-> <<>>]
            ELSE LET key == trim(facts[k].claim) IN
                 IF key \notin loop[k - 1].seen
                 THEN [seen |-> loop[k - 1].seen \cup {key},
                       unique |-> Append(loop[k - 1].unique, facts[k])]
                 ELSE loop[k - 1]
    IN  [facts |-> facts, unique |-> loop[Len(facts)].unique]

\* facts: the argument array after the call; unique: the returned array
deduplicateFacts(facts) ==
    LET loop[k \in 0..Len(facts)] ==
            IF k = 0 THEN [seen |-> {}, unique |-> <<>>]
            ELSE LET key == trim(toLowerCase(facts[k].claim)) IN
                 IF key \notin loop[k - 1].seen
                 THEN [seen |-> loop[k - 1].seen \cup {key},
                       unique |-> Append(loop[k - 1].unique, facts[k])]
                 ELSE loop[k - 1]
    IN  [facts |-> facts, unique |-> loop[Len(facts)].unique]

nonCallVars ==
    <<pc, request, steps, qualityWarnings, retry, research, validation, article,
      compliance, articles, writerCalls, deepCalls, partition, verdict, caught,
      result, rewrites, fetched, clock>>

InitDedup ==
    /\ IdleRun
    /\ retry = IdleRetry
    /\ \E n \in 0..MaxDedupFacts : \E f \in FactsOfLength(n) :
        call = [fn |-> "deduplicateFacts", pc |-> "called", input |-> f,
                facts |-> f, unique |-> <<>>, again |-> <<>>]

Deduplicate ==
    /\ call.pc = "called"
    /\ LET out == deduplicateFacts(call.facts) IN
        call' = [call EXCEPT !.pc = "returned", !.facts = out.facts,
                             !.unique = out.unique]
    /\ UNCHANGED nonCallVars

DeduplicateAgain ==
    /\ call.pc = "returned"
    /\ call' = [call EXCEPT !.pc = "twice",
                            !.again = deduplicateFacts(call.unique).unique]
    /\ UNCHANGED nonCallVars

NextDedup == Deduplicate \/ DeduplicateAgain

SpecDedup == InitDedup /\ [][NextDedup]_vars

LowerCase == [c \in {"a", "A", "b", "B", " "} |->
                IF c = "A" THEN "a" ELSE IF c = "B" THEN "b" ELSE c]

\* the claim text lower-cased, from its first to its last non-blank character
ClaimKey(text) ==
    LET lower == [k \in 1..Len(text) |-> LowerCase[text[k]]]
        inked == { k \in 1..Len(text) : lower[k] # " " }
    IN  IF inked = {} THEN <<>>
        ELSE SubSeq(lower, CHOOSE k \in inked : \A j \in inked : k <= j,
                           CHOOSE k \in inked : \A j \in inked : k >= j)

FirstOccurrences(f) ==
    { k \in 1..Len(f) :
        \A j \in 1..(k - 1) : ClaimKey(f[j].claim) # ClaimKey(f[k].claim) }

\* C21: deduplicateFacts returns exactly the facts that are the first of their
\* key (claim lower-cased and trimmed), in input order, and leaves its argument
\* as it was.
DedupKeepsFirstOccurrences ==
    (call.fn = "deduplicateFacts" /\ call.pc # "called") =>
        /\ call.unique = Select(call.input, FirstOccurrences(call.input))
        /\ call.facts = call.input

MergedByCaseAndBlanks ==
    /\ call.fn = "deduplicateFacts" /\ call.pc = "returned"
    /\ Len(call.input) = 3 /\ Len(call.unique) = 2
    /\ call.input[1].claim = <<"A", " ", "B">>
    /\ call.input[3].claim = <<"a", " ", "b">>
    /\ call.unique[1] = call.input[1]

\* C22: deduplicating a deduplicated list changes nothing.
DedupIdempotent ==
    (call.fn = "deduplicateFacts" /\ call.pc = "twice") => call.again = call.unique

DedupedTwice ==
    /\ call.fn = "deduplicateFacts" /\ call.pc = "twice"
    /\ Len(call.input) = 3 /\ Len(call.unique) = 1
    /\ call.again = call.unique

-----------------------------------------------------------------------------
(* Properties of the compliance result and of the envelope *)

HasIssue(issues, severity, check) ==
    \E k \in 1..Len(issues) :
        issues[k].severity = severity /\ issues[k].check = check

\* C23: for an article below 650 words without placeholder and with clean tone,
\* the result runComplianceChecker returns lists a 'warning' issue of check
\* 'completeness', and the pre-checks block only on a critical issue.
ShortArticleWarned ==
    /\ (/\ compliance.given
        /\ article.wordCount < MinWordCount
        /\ ~Includes(article.content, "[PLACEHOLDER")
        /\ validateToneOfVoice(article.content).valid)
       => HasIssue(compliance.issues, "warning", "completeness")
    /\ (verdict.source = "precheck" /\ ~verdict.approved)
       => HasIssue(verdict.issues, "critical", "completeness")

-----------------------------------------------------------------------------
(* brand-knowledge: validateToneOfVoice on a text *)

MaxTokens == 3         \* longest text validateToneOfVoice is called with

ToneTokens == {"tekst", "beste", "uniek", "revolutionair", "ongeveer", "mogelijk"}

TextsOfLength(n) == [1..n -> ToneTokens]

InitTone ==
    /\ IdleRun
    /\ retry = IdleRetry
    /\ \E n \in 0..MaxTokens : \E t \in TextsOfLength(n) :
        call = [fn |-> "validateToneOfVoice", pc |-> "called", text |-> t,
                result |-> [valid |-> FALSE, issues |-> <<>>, score |-> 0]]

ValidateTone ==
    /\ call.pc = "called"
    /\ call' = [call EXCEPT !.pc = "returned",
                            !.result = validateToneOfVoice(call.text)]
    /\ UNCHANGED nonCallVars

NextTone == ValidateTone

SpecTone == InitTone /\ [][NextTone]_vars

\* the places of the text where one of the words stands
MatchesIn(text, words) ==
    { <<k, w>> \in (1..Len(text)) \X (1..Len(words)) : text[k] = words[w] }

\* C24: every match of an avoid-list word or of a hedging pattern is one issue,
\* the score is max(0, 100 - 15 * issues), and the text passes iff the score is
\* at least 70, that is iff it has at most two matches.
ToneCountsEveryMatch ==
    (call.fn = "validateToneOfVoice" /\ call.pc = "returned") =>
        LET issueCount == Cardinality(MatchesIn(call.text, avoidWords))
                          + Cardinality(MatchesIn(call.text, vaguePatterns))
        IN  /\ Len(call.result.issues) = issueCount
            /\ call.result.score = Max(0, 100 - 15 * issueCount)
            /\ call.result.valid <=> call.result.score >= 70
            /\ call.result.valid <=> issueCount <= 2

IsCritical(issue) == issue.severity = "critical"

\* C25: the envelope of an unknown error carries no stack trace in any field.
NoStackInEnvelope ==
    (Returned /\ ~result.success /\ result.errorType = "unknown") =>
        /\ result.errorDetails.stack = <<>>
        /\ \A k \in 1..Len(result.error) : result.error[k] \notin
                { Stack(caught)[j] : j \in 2..Len(Stack(caught)) }

Succeeds == Returned /\ result.success

InsufficientFactsCarriesRejected ==
    caught.name = "InsufficientFactsError" =>
        /\ Len(caught.rejectedFacts) = Len(research) - Len(partition.approved)
        /\ Returned /\ ~result.success
        /\ result.errorType = "insufficient_facts"
        /\ Len(result.errorDetails.rejected) = Len(research) - Len(partition.approved)
        /\ \A k \in 1..Len(result.errorDetails.rejected) :
            /\ result.errorDetails.rejected[k].claim = partition.rejected[k].claim
            /\ result.errorDetails.rejected[k].reason
                = partition.rejected[k].rejectionReason
            /\ result.errorDetails.rejected[k].reason # ""
            /\ \A j \in 1..Len(partition.approved) :
                partition.approved[j] # result.errorDetails.rejected[k].claim

TwoOfSixRejected ==
    /\ caught.name = "InsufficientFactsError"
    /\ Len(research) = 6
    /\ Len(partition.approved) = 4
    /\ Len(result.errorDetails.rejected) = 2

\* C28: when the deep check answers approved = false, the ComplianceError and
\* the envelope's errorDetails.issues hold exactly the critical issues of that
\* answer, in order, and no warning or info issue.
ComplianceErrorCarriesCriticalOnly ==
    caught.name = "ComplianceError" =>
        /\ verdict.source = "deep" /\ ~verdict.approved
        /\ caught.criticalIssues = SelectSeq(verdict.issues, IsCritical)
        /\ Returned /\ ~result.success
        /\ result.errorType = "compliance_failed"
        /\ result.errorDetails.issues = SelectSeq(verdict.issues, IsCritical)

WarningLeftOutOfError ==
    /\ caught.name = "ComplianceError"
    /\ Len(verdict.issues) = 2
    /\ Len(result.errorDetails.issues) = 1

FailedRewriteLeavesNoRow ==
    [][\A p \in Procs :
        (/\ rewrites[p].pc # "done"
         /\ rewrites'[p].pc = "done"
         /\ ~rewrites'[p].response.success)
        => \A k \in 1..Len(articles') : articles'[k].id # rewrites[p].articleId]_vars

=============================================================================
